---- MODULE Spec2Model ----
(***************************************************************************)
(* EarlyAllocator<PAGE_SIZE> of arceos/modules/bump_allocator/src/lib.rs: *)
(* a double-ended arena.  Bytes are handed out forward from b_pos, pages   *)
(* backward from p_pos.  All arithmetic is on machine words (usize) of     *)
(* WordBits bits: an overflowing +, - or * panics in a build with overflow *)
(* checks and wraps modulo 2^WordBits in a build without them.             *)
(***************************************************************************)
EXTENDS Integers, Sequences, FiniteSets

\* ------------------------------------------------------------------ bounds
\* Width of usize in the model (Rust has 16-bit usize targets).
WordBits == 16
\* Most successful allocations (bytes and pages together) followed since init.
MaxAllocs == 2

\* The const generic parameter PAGE_SIZE.
PAGE_SIZE == 4096

RECURSIVE Pow2(_)
Pow2(n) == IF n = 0 THEN 1 ELSE 2 * Pow2(n - 1)

Modulus == Pow2(WordBits)
\* usize::MAX
MaxWord == Modulus - 1
\* isize::MAX, the largest padded size a Layout may have
ISizeMax == Pow2(WordBits - 1) - 1

\* --------------------------------------------------------- word arithmetic
\* The value a wrapping operation leaves in a usize.
Wrap(x) == x % Modulus
\* Whether the mathematical result of an operation is outside usize.
Overflows(x) == x < 0 \/ x > MaxWord

RECURSIVE BitAnd(_, _)
BitAnd(a, b) ==
    IF a = 0 \/ b = 0 THEN 0
    ELSE (a % 2) * (b % 2) + 2 * BitAnd(a \div 2, b \div 2)

\* !x on a usize
BitNot(x) == MaxWord - x

\* usize::is_power_of_two: exactly one bit set
is_power_of_two(x) == x # 0 /\ BitAnd(x, x - 1) = 0

\* pos & !(align - 1)
align_down(pos, align) == BitAnd(pos, BitNot(align - 1))

\* (pos + align - 1) & !(align - 1), the sum taken as the wrapping build
\* leaves it; align_up_overflows says whether the checked build panics.
align_up_wrong(pos, align) == BitAnd(pos, BitNot(align - 1))
align_up(pos, align) == BitAnd(Wrap(Wrap(pos + align) - 1), BitNot(align - 1))
align_up_overflows(pos, align) ==
    Overflows(pos + align) \/ Overflows(Wrap(pos + align) - 1)

\* Layout::pad_to_align().size(): size rounded up to a multiple of align.
\* A Layout guarantees align is a power of two and that this fits in isize.
pad_to_align(size, align) == BitAnd(size + align - 1, BitNot(align - 1))

\* ------------------------------------------------------------------ state
VARIABLES
    debug_build,   \* the build has overflow checks (panic) or not (wrap)
    inited,        \* init has returned at least once
    start,         \* EarlyAllocator.start
    end,           \* EarlyAllocator.end
    b_pos,         \* EarlyAllocator.b_pos
    p_pos,         \* EarlyAllocator.p_pos
    halted,        \* a panic has stopped the program
    last,          \* the last call: its arguments, its result, the fields before it
    byte_allocs,   \* successful byte allocations since init: <<[ptr, size]>>
    page_allocs    \* successful page allocations since init: <<[addr, num, adj]>>

vars == <<debug_build, inited, start, end, b_pos, p_pos, halted, last, byte_allocs, page_allocs>>

\* The four fields of the struct.
Fields == [start |-> start, end |-> end, b_pos |-> b_pos, p_pos |-> p_pos]

\* The error kinds the allocator returns.
ErrorKinds == {"NoMemory", "InvalidParam"}

\* ----------------------------------------------------------------- inputs
HighHalf == Modulus \div 2
InitStarts == {0, PAGE_SIZE + 100, HighHalf + PAGE_SIZE}
InitSizes == {0, 1, PAGE_SIZE, 3 * PAGE_SIZE, HighHalf - 2 * PAGE_SIZE,
              HighHalf - 2 * PAGE_SIZE + 1, HighHalf - PAGE_SIZE}
LayoutSizes == {0, 1, 64, ISizeMax - 7}
LayoutAligns == {1, 8, 2 * PAGE_SIZE}
\* Layout::from_size_align accepts exactly these.
ValidLayout(size, align) ==
    is_power_of_two(align) /\ size + align - 1 <= MaxWord
        /\ pad_to_align(size, align) <= ISizeMax
NumPagesInputs == {0, 1, 3, Modulus \div PAGE_SIZE - 1, MaxWord}
AlignInputs == {0, 8, PAGE_SIZE, 2 * PAGE_SIZE, 3 * PAGE_SIZE}
AddrInputs == {0, PAGE_SIZE}

\* ------------------------------------------------------------- accounting
\* The accounting functions read the fields of &self.  Each value is the one
\* the wrapping build returns; accounting_overflows says whether one of the
\* six subtractions goes below zero (the checked build panics there).
total_bytes(self) == Wrap(self.p_pos - self.start)
used_bytes(self) == Wrap(self.b_pos - self.start)
available_bytes(self) == Wrap(total_bytes(self) - used_bytes(self))
total_pages(self) == Wrap(self.end - self.b_pos) \div PAGE_SIZE
used_pages(self) == Wrap(self.end - self.p_pos) \div PAGE_SIZE
available_pages(self) == Wrap(total_pages(self) - used_pages(self))
accounting_overflows(self) ==
    \/ self.p_pos < self.start
    \/ self.b_pos < self.start
    \/ total_bytes(self) < used_bytes(self)
    \/ self.end < self.b_pos
    \/ self.end < self.p_pos
    \/ total_pages(self) < used_pages(self)

\* ------------------------------------------------------------- operations
\* What a call leaves behind for the caller: result and the fields before it.
Report(op, a1, a2, res, err, val) ==
    /\ last' = [op |-> op, a1 |-> a1, a2 |-> a2, res |-> res, err |-> err,
                val |-> val, pre |-> Fields]
    /\ halted' = (res = "panic")

\* EarlyAllocator::new()
Init ==
    /\ debug_build \in BOOLEAN
    /\ inited = FALSE
    /\ start = 0 /\ end = 0 /\ b_pos = 0 /\ p_pos = 0
    /\ halted = FALSE
    /\ last = [op |-> "new", a1 |-> 0, a2 |-> 0, res |-> "ok", err |-> "none",
               val |-> 0, pre |-> [start |-> 0, end |-> 0, b_pos |-> 0, p_pos |-> 0]]
    /\ byte_allocs = <<>>
    /\ page_allocs = <<>>

\* init as it would be if a second call extended the region it already has
\* instead of replacing it.
init_accumulates(s, z) ==
    /\ ~halted
    /\ LET new_start == align_down(s, PAGE_SIZE)
           sum == s + z
           ovf == Overflows(sum) \/ align_up_overflows(Wrap(sum), PAGE_SIZE)
           new_end == align_up(Wrap(sum), PAGE_SIZE)
           keep == inited /\ end > new_end
       IN  IF debug_build /\ ovf
           THEN /\ start' = new_start
                /\ Report("init", s, z, "panic", "none", 0)
                /\ UNCHANGED <<inited, end, b_pos, p_pos, byte_allocs, page_allocs>>
           ELSE /\ start' = new_start
                /\ end' = IF keep THEN end ELSE new_end
                /\ b_pos' = new_start
                /\ p_pos' = IF keep THEN end ELSE new_end
                /\ byte_allocs' = <<>>
                /\ page_allocs' = <<>>
                /\ inited' = TRUE
                /\ Report("init", s, z, "ok", "none", 0)
    /\ UNCHANGED debug_build

\* BaseAllocator::init(start, size)
init(s, z) ==
    /\ ~halted
    /\ IF ~is_power_of_two(PAGE_SIZE)
       THEN /\ Report("init", s, z, "panic", "none", 0)
            /\ UNCHANGED <<inited, start, end, b_pos, p_pos, byte_allocs, page_allocs>>
       ELSE LET new_start == align_down(s, PAGE_SIZE)
                sum == s + z
                ovf == Overflows(sum) \/ align_up_overflows(Wrap(sum), PAGE_SIZE)
                new_end == align_up(Wrap(sum), PAGE_SIZE)
            IN  IF debug_build /\ ovf
                THEN /\ start' = new_start
                     /\ Report("init", s, z, "panic", "none", 0)
                     /\ UNCHANGED <<inited, end, b_pos, p_pos, byte_allocs, page_allocs>>
                ELSE /\ start' = new_start
                     /\ end' = new_end
                     /\ b_pos' = new_start
                     /\ p_pos' = new_end
                     /\ byte_allocs' = <<>>
                     /\ page_allocs' = <<>>
                     /\ inited' = TRUE
                     /\ Report("init", s, z, "ok", "none", 0)
    /\ UNCHANGED debug_build

\* BaseAllocator::add_memory(start, size)
add_memory_error == "NoMemory"
add_memory(s, z) ==
    /\ ~halted
    /\ Report("add_memory", s, z, "err", add_memory_error, 0)
    /\ UNCHANGED <<debug_build, inited, start, end, b_pos, p_pos, byte_allocs, page_allocs>>

\* What NonNull::new_unchecked(0) followed by Ok(ptr) can come to: the null
\* pointer is undefined behaviour, so the caller may see Ok(0), an Err (null
\* is the niche of NonNull) or a panic from the precondition check.
NullPtrOutcomes ==
    {[res |-> "ok", err |-> "none"], [res |-> "panic", err |-> "none"]}
        \cup {[res |-> "err", err |-> e] : e \in ErrorKinds}

\* ByteAllocator::alloc(Layout { size, align })
alloc(size, align) ==
    /\ ~halted
    /\ ValidLayout(size, align)
    /\ Len(byte_allocs) + Len(page_allocs) < MaxAllocs
    /\ LET padded == pad_to_align(size, align)
           new_b_pos == Wrap(b_pos + padded)
       IN  IF debug_build /\ Overflows(b_pos + padded)
           THEN /\ Report("alloc", size, align, "panic", "none", 0)
                /\ UNCHANGED byte_allocs
           ELSE IF new_b_pos > p_pos
           THEN /\ Report("alloc", size, align, "err", "NoMemory", 0)
                /\ UNCHANGED byte_allocs
           ELSE \E out \in IF b_pos = 0 THEN NullPtrOutcomes
                           ELSE {[res |-> "ok", err |-> "none"]} :
                /\ Report("alloc", size, align, out.res, out.err,
                          IF out.res = "ok" THEN b_pos ELSE 0)
                /\ byte_allocs' = IF out.res = "ok"
                                  THEN Append(byte_allocs, [ptr |-> b_pos, size |-> padded])
                                  ELSE byte_allocs
    /\ UNCHANGED <<debug_build, inited, start, end, b_pos, p_pos, page_allocs>>

\* dealloc as it would be if it wound the byte cursor back to the block freed.
dealloc_rewinds(pos, size) ==
    /\ ~halted
    /\ b_pos' = pos
    /\ Report("dealloc", pos, size, "ok", "none", 0)
    /\ UNCHANGED <<debug_build, inited, start, end, p_pos, byte_allocs, page_allocs>>

\* ByteAllocator::dealloc(pos, layout)
dealloc(pos, size) ==
    /\ ~halted
    /\ Report("dealloc", pos, size, "ok", "none", 0)
    /\ UNCHANGED <<debug_build, inited, start, end, b_pos, p_pos, byte_allocs, page_allocs>>

\* The two parameter checks of alloc_pages.
invalid_param_lax(align_pow2) == align_pow2 % PAGE_SIZE # 0 \/ align_pow2 \div PAGE_SIZE = 0
invalid_param(align_pow2) ==
    \/ align_pow2 % PAGE_SIZE # 0
    \/ ~is_power_of_two(align_pow2 \div PAGE_SIZE)

\* PageAllocator::alloc_pages(num_pages, align_pow2)
alloc_pages(num_pages, align_pow2) ==
    /\ ~halted
    /\ Len(byte_allocs) + Len(page_allocs) < MaxAllocs
    /\ IF invalid_param(align_pow2)
       THEN /\ Report("alloc_pages", num_pages, align_pow2, "err", "InvalidParam", 0)
            /\ UNCHANGED <<p_pos, page_allocs>>
       ELSE LET align_in_pages == align_pow2 \div PAGE_SIZE
                remain == align_in_pages - (num_pages % align_in_pages)
                adjusted == Wrap(num_pages + remain)
                bytes == Wrap(adjusted * PAGE_SIZE)
                new_p_pos == Wrap(p_pos - bytes)
                ovf == \/ Overflows(num_pages + remain)
                       \/ Overflows(adjusted * PAGE_SIZE)
                       \/ Overflows(p_pos - bytes)
            IN  IF debug_build /\ ovf
                THEN /\ Report("alloc_pages", num_pages, align_pow2, "panic", "none", 0)
                     /\ UNCHANGED <<p_pos, page_allocs>>
                ELSE IF new_p_pos < b_pos
                THEN /\ Report("alloc_pages", num_pages, align_pow2, "err", "NoMemory", 0)
                     /\ UNCHANGED <<p_pos, page_allocs>>
                ELSE /\ p_pos' = new_p_pos
                     /\ Report("alloc_pages", num_pages, align_pow2, "ok", "none", new_p_pos)
                     /\ page_allocs' = Append(page_allocs,
                            [addr |-> new_p_pos, num |-> num_pages,
                             adj |-> num_pages + remain])
    /\ UNCHANGED <<debug_build, inited, start, end, b_pos, byte_allocs>>

\* PageAllocator::dealloc_pages(pos, num_pages): unimplemented!()
dealloc_pages(pos, num_pages) ==
    /\ ~halted
    /\ Report("dealloc_pages", pos, num_pages, "panic", "none", 0)
    /\ UNCHANGED <<debug_build, inited, start, end, b_pos, p_pos, byte_allocs, page_allocs>>

Next ==
    \/ \E s \in InitStarts, z \in InitSizes : init(s, z)
    \/ \E s \in AddrInputs : add_memory(s, PAGE_SIZE)
    \/ \E size \in LayoutSizes, align \in LayoutAligns : alloc(size, align)
    \/ \E pos \in AddrInputs : dealloc(pos, 64)
    \/ \E n \in NumPagesInputs, a \in AlignInputs : alloc_pages(n, a)
    \/ \E pos \in AddrInputs : dealloc_pages(pos, 1)

Spec == Init /\ [][Next]_vars

\* ---------------------------------------------------------------- helpers
\* Multiples of PAGE_SIZE next to x, as numbers (no machine word involved).
FloorPage(x) == x - (x % PAGE_SIZE)
CeilPage(x) == ((x + PAGE_SIZE - 1) \div PAGE_SIZE) * PAGE_SIZE
\* x is 2^k for some k
IsPow2(x) == \E k \in 0..WordBits : x = Pow2(k)
\* [a, a + n) and [b, b + m) have no address in common
Disjoint(a, n, b, m) == n = 0 \/ m = 0 \/ a + n <= b \/ b + m <= a
RECURSIVE SumSizes(_)
SumSizes(s) == IF s = <<>> THEN 0 ELSE Head(s).size + SumSizes(Tail(s))
\* The region the last init set up is a proper one (not empty, and start +
\* size, rounded up, fits in a machine word) and no panic has stopped the
\* program.
ProperRegion == inited /\ ~halted /\ start < end
\* The last call was op, made on an initialised allocator with a proper region.
CalledOnProper(op) ==
    last.op = op /\ inited /\ last.pre.start < last.pre.end
\* The last call was op and returned (it did not panic).
Returned(op) == last.op = op /\ last.res # "panic"
Failed(kind) == last.res = "err" /\ last.err = kind

\* ------------------------------------------------------------------ claims
\* C1: in every state reachable from init by alloc, dealloc, alloc_pages and
\* add_memory calls, start <= b_pos <= p_pos <= end.  Stated for proper
\* regions; alloc_pages breaks it when p_pos - adjusted*PAGE_SIZE wraps (C6).
C1_CursorsOrdered ==
    ProperRegion => (start <= b_pos /\ b_pos <= p_pos /\ p_pos <= end)

\* C2 (as claimed): after init(start, size), for every (start, size), start is
\* the largest multiple of PAGE_SIZE <= the given start, end the smallest
\* multiple of PAGE_SIZE >= start + size, b_pos = start and p_pos = end.
C2_InitRoundsAnyRegion ==
    Returned("init") =>
        /\ start = FloorPage(last.a1)
        /\ end = CeilPage(last.a1 + last.a2)
        /\ b_pos = start
        /\ p_pos = end

\* C2 (amended): the same, for every (start, size) for which the smallest
\* multiple of PAGE_SIZE >= start + size fits in a machine word, whenever
\* init returns.
C2_InitRounds ==
    (Returned("init") /\ CeilPage(last.a1 + last.a2) <= MaxWord) =>
        /\ start = FloorPage(last.a1)
        /\ end = CeilPage(last.a1 + last.a2)
        /\ b_pos = start
        /\ p_pos = end

\* C2's case: init of a region whose two ends are both unaligned, called on
\* an allocator that had already handed out memory.
C2_Witness ==
    /\ Returned("init")
    /\ last.a1 % PAGE_SIZE # 0
    /\ (last.a1 + last.a2) % PAGE_SIZE # 0
    /\ CeilPage(last.a1 + last.a2) <= MaxWord
    /\ start < end
    /\ last.pre.p_pos < last.pre.end

\* C3: a successful alloc returns the b_pos of before the call and advances
\* b_pos by the padded size, so used_bytes() is the sum of the padded sizes
\* of the successful byte allocations since init.  Stated for a non-null
\* cursor, where the pointer returned is defined.
C3_AllocAdvances ==
    (ProperRegion /\ Returned("alloc") /\ last.res = "ok" /\ last.pre.b_pos # 0) =>
        /\ last.val = last.pre.b_pos
        /\ b_pos = last.pre.b_pos + pad_to_align(last.a1, last.a2)
        /\ used_bytes(Fields) = SumSizes(byte_allocs)

\* C4: the ranges [ptr, ptr + padded_size) of the successful byte allocations
\* of non-zero size are pairwise disjoint, and a later one is at a strictly
\* greater address than every earlier one.
C4_ByteRangesDisjoint ==
    ProperRegion =>
        \A i, j \in 1..Len(byte_allocs) :
            (i < j /\ byte_allocs[i].size > 0 /\ byte_allocs[j].size > 0) =>
                /\ byte_allocs[i].ptr + byte_allocs[i].size <= byte_allocs[j].ptr
                /\ byte_allocs[i].ptr < byte_allocs[j].ptr

\* C5: a byte allocation fails with NoMemory exactly when b_pos + padded_size
\* > p_pos, that is when the padded size exceeds available_bytes(), and a
\* failing one leaves the four fields as they were.  Stated for a non-null
\* cursor in a proper region.
C5_AllocFailsExactlyWhenFull ==
    (CalledOnProper("alloc") /\ last.pre.b_pos # 0) =>
        /\ Failed("NoMemory") <=>
               last.pre.b_pos + pad_to_align(last.a1, last.a2) > last.pre.p_pos
        /\ Failed("NoMemory") <=>
               pad_to_align(last.a1, last.a2) > available_bytes(last.pre)
        /\ last.res = "err" => Fields = last.pre

\* C6: for a valid align_bytes, alloc_pages(num_pages, align_bytes) with
\* num_pages > available_pages() fails with NoMemory and leaves the four
\* fields unchanged, also when adjusted*PAGE_SIZE is larger than p_pos.
C6_TooManyPagesFails ==
    (/\ CalledOnProper("alloc_pages")
     /\ last.a2 % PAGE_SIZE = 0 /\ IsPow2(last.a2 \div PAGE_SIZE)
     /\ last.a1 > available_pages(last.pre)) =>
        /\ Failed("NoMemory")
        /\ Fields = last.pre
        /\ p_pos <= end

\* C7: alloc_pages fails with InvalidParam, for every num_pages and in every
\* state, whenever align_bytes is not a multiple of PAGE_SIZE or
\* align_bytes / PAGE_SIZE is not a power of two (align_bytes = 0 included),
\* and then the four fields are unchanged.
C7_InvalidAlign ==
    (/\ last.op = "alloc_pages"
     /\ (last.a2 % PAGE_SIZE # 0 \/ ~IsPow2(last.a2 \div PAGE_SIZE))) =>
        /\ Failed("InvalidParam")
        /\ Fields = last.pre

\* C7's case: a request of three pages' alignment, made after pages have
\* been handed out, is refused.
C7_Witness ==
    /\ last.op = "alloc_pages"
    /\ last.a2 = 3 * PAGE_SIZE
    /\ last.a1 > 0
    /\ Failed("InvalidParam")
    /\ ProperRegion
    /\ Len(page_allocs) > 0
    /\ p_pos < end

\* C8: in every reachable state used_bytes() + available_bytes() =
\* total_bytes() and used_pages() + available_pages() = total_pages(), and
\* no subtraction of the accounting functions goes below zero.
C8_Accounting ==
    ProperRegion =>
        /\ ~accounting_overflows(Fields)
        /\ used_bytes(Fields) + available_bytes(Fields) = total_bytes(Fields)
        /\ used_pages(Fields) + available_pages(Fields) = total_pages(Fields)

\* C9: the blocks [addr, addr + adjusted*PAGE_SIZE) of the successful
\* alloc_pages calls are pairwise disjoint, lie inside [start, end) and are
\* disjoint from every byte range handed out, before or after.  Stated for
\* the build with overflow checks and a non-null region, where neither
\* wrap-around nor the null pointer takes part.
C9_PageBlocksDisjoint ==
    (ProperRegion /\ debug_build /\ start # 0) =>
        /\ \A i \in 1..Len(page_allocs) :
               /\ start <= page_allocs[i].addr
               /\ page_allocs[i].addr + page_allocs[i].adj * PAGE_SIZE <= end
        /\ \A i, j \in 1..Len(page_allocs) :
               i < j => Disjoint(page_allocs[i].addr, page_allocs[i].adj * PAGE_SIZE,
                                 page_allocs[j].addr, page_allocs[j].adj * PAGE_SIZE)
        /\ \A i \in 1..Len(page_allocs), j \in 1..Len(byte_allocs) :
               Disjoint(page_allocs[i].addr, page_allocs[i].adj * PAGE_SIZE,
                        byte_allocs[j].ptr, byte_allocs[j].size)

\* C10: add_memory fails for every argument pair and in every state, with
\* the error of the 'not supported' kind, and leaves the four fields
\* unchanged.
C10_AddMemoryUnsupported ==
    last.op = "add_memory" =>
        /\ Failed("Unsupported")
        /\ Fields = last.pre

\* C11: dealloc is a no-op: for every pointer and layout and in every state
\* it returns and leaves the four fields unchanged, so used_bytes() is the
\* same before and after (and a later alloc, which reads nothing but the
\* fields, behaves as if dealloc had not been called).
C11_DeallocNoOp ==
    last.op = "dealloc" =>
        /\ last.res = "ok"
        /\ Fields = last.pre
        /\ used_bytes(Fields) = used_bytes(last.pre)
        /\ available_bytes(Fields) = available_bytes(last.pre)

\* C11's case: dealloc of a pointer that a byte allocation returned.
C11_Witness ==
    /\ last.op = "dealloc"
    /\ ProperRegion
    /\ Len(byte_allocs) > 0
    /\ last.a1 = byte_allocs[1].ptr
    /\ last.a2 = byte_allocs[1].size

\* C12: dealloc_pages never returns normally (it signals 'not implemented')
\* for every argument pair and in every state, and page memory is never
\* returned: no call other than init makes end - p_pos smaller.
C12_PagesNeverReturned ==
    /\ last.op = "dealloc_pages" => last.res = "panic"
    /\ (inited /\ last.op \notin {"new", "init"} /\ last.pre.start < last.pre.end) =>
           end - p_pos >= last.pre.end - last.pre.p_pos

\* The fields right after init(0, 4096).
ScenarioArena == [start |-> 0, end |-> 4096, b_pos |-> 0, p_pos |-> 4096]

\* C13: with PAGE_SIZE = 4096, init(0, 4096) gives start = 0 and end = 4096;
\* then alloc(size 64, align 8) succeeds, returns 0 and used_bytes() = 64;
\* then alloc_pages(1, 4096) succeeds, returns 0 and used_pages() = 1; and a
\* following byte allocation larger than the remaining space fails with
\* NoMemory.  The byte allocation's pointer is the null pointer there, so its
\* step is stated for the outcome in which Ok(0) reaches the caller.
C13_Scenario ==
    /\ (Returned("init") /\ last.a1 = 0 /\ last.a2 = 4096) =>
           (start = 0 /\ end = 4096)
    /\ (/\ inited /\ last.op = "alloc" /\ last.a1 = 64 /\ last.a2 = 8
        /\ last.pre = ScenarioArena /\ page_allocs = <<>> /\ last.res = "ok") =>
           (last.val = 0 /\ used_bytes(Fields) = 64)
    /\ (/\ inited /\ last.op = "alloc_pages" /\ last.a1 = 1 /\ last.a2 = 4096
        /\ last.pre.start = 0 /\ last.pre.end = 4096 /\ last.pre.p_pos = 4096
        /\ byte_allocs = <<[ptr |-> 0, size |-> 64]>>) =>
           (last.res = "ok" /\ last.val = 0 /\ used_pages(Fields) = 1)
    /\ (/\ inited /\ last.op = "alloc"
        /\ last.pre.start = 0 /\ last.pre.end = 4096
        /\ Len(page_allocs) = 1 /\ page_allocs[1].num = 1
        /\ pad_to_align(last.a1, last.a2) > available_bytes(last.pre)) =>
           Failed("NoMemory")

\* C14: for valid align_bytes a successful alloc_pages(num_pages, align_bytes)
\* lowers p_pos by exactly adjusted * PAGE_SIZE, where adjusted = num_pages +
\* (align_in_pages - num_pages mod align_in_pages), a request that is already
\* a multiple of align_in_pages taking one full extra unit, and returns the
\* new p_pos.
C14_PagesLowerCursor ==
    (CalledOnProper("alloc_pages") /\ last.res = "ok") =>
        LET align_in_pages == last.a2 \div PAGE_SIZE
            adjusted == last.a1 + (align_in_pages - (last.a1 % align_in_pages))
        IN  /\ p_pos = last.pre.p_pos - adjusted * PAGE_SIZE
            /\ last.val = p_pos

\* C15: between two init calls start and end never change, b_pos never
\* decreases and p_pos never increases; a byte allocation never changes p_pos
\* and a page allocation never changes b_pos.
C15_CursorsMonotone ==
    (inited /\ last.op \notin {"new", "init"} /\ last.pre.start < last.pre.end) =>
        /\ start = last.pre.start
        /\ end = last.pre.end
        /\ b_pos >= last.pre.b_pos
        /\ p_pos <= last.pre.p_pos
        /\ last.op = "alloc" => p_pos = last.pre.p_pos
        /\ last.op = "alloc_pages" => b_pos = last.pre.b_pos

\* What init(s, z) leaves in a freshly constructed allocator.
FreshInit(s, z) ==
    [start |-> align_down(s, PAGE_SIZE),
     end   |-> align_up(Wrap(s + z), PAGE_SIZE),
     b_pos |-> align_down(s, PAGE_SIZE),
     p_pos |-> align_up(Wrap(s + z), PAGE_SIZE)]

\* C16: init(start2, size2) called in any reachable state, after any number
\* of allocations, leaves exactly the state it leaves in a fresh allocator:
\* the bounds of the new region only, b_pos = start, p_pos = end, and
\* used_bytes() = used_pages() = 0.
C16_InitResets ==
    Returned("init") =>
        /\ Fields = FreshInit(last.a1, last.a2)
        /\ b_pos = start
        /\ p_pos = end
        /\ used_bytes(Fields) = 0
        /\ used_pages(Fields) = 0
        /\ byte_allocs = <<>>
        /\ page_allocs = <<>>

\* C16's case: a second init, for a smaller region elsewhere, on an
\* allocator that had handed out pages of its first region.
C16_Witness ==
    /\ Returned("init")
    /\ last.pre.start < last.pre.end
    /\ last.pre.p_pos < last.pre.end
    /\ start # last.pre.start
    /\ end < last.pre.end
    /\ start < end

\* The fields new() leaves.
Unusable == [start |-> 0, end |-> 0, b_pos |-> 0, p_pos |-> 0]

\* C17: before init (all four fields 0) every byte allocation of non-zero
\* size and every alloc_pages call with valid alignment fails with NoMemory,
\* none succeeds with an address, and the four fields stay 0.
C17_UnusableBeforeInit ==
    (/\ ~inited
     /\ last.pre = Unusable
     /\ \/ last.op = "alloc" /\ last.a1 > 0
        \/ /\ last.op = "alloc_pages"
           /\ last.a2 % PAGE_SIZE = 0 /\ IsPow2(last.a2 \div PAGE_SIZE)) =>
        /\ Failed("NoMemory")
        /\ Fields = Unusable

\* C18: every address a successful alloc_pages(num_pages, align_bytes)
\* returns is a multiple of align_bytes, whatever page allocations came
\* before.  Stated for the build with overflow checks, where no wrap-around
\* takes part.
C18_PageAddressAligned ==
    (ProperRegion /\ debug_build /\ last.op = "alloc_pages" /\ last.res = "ok") =>
        last.val % last.a2 = 0

\* C19: every address a successful alloc(Layout{size, align}) returns is a
\* multiple of align, whatever byte allocations came before.  Stated for a
\* non-null cursor, where the pointer returned is defined.
C19_ByteAddressAligned ==
    (/\ ProperRegion /\ last.op = "alloc" /\ last.res = "ok"
     /\ last.a1 > 0 /\ last.pre.b_pos # 0) =>
        last.val % last.a2 = 0

\* C20: after init, for valid align_bytes, alloc_pages(num_pages, align_bytes)
\* succeeds if and only if adjusted = num_pages + (align_in_pages - num_pages
\* mod align_in_pages) is <= available_pages(); and after a success
\* available_pages() has dropped by adjusted and used_pages() has risen by it.
C20_PagesSucceedIffAvailable ==
    (/\ CalledOnProper("alloc_pages")
     /\ last.a2 % PAGE_SIZE = 0 /\ IsPow2(last.a2 \div PAGE_SIZE)) =>
        LET align_in_pages == last.a2 \div PAGE_SIZE
            adjusted == last.a1 + (align_in_pages - (last.a1 % align_in_pages))
        IN  /\ last.res = "ok" <=> adjusted <= available_pages(last.pre)
            /\ last.res = "ok" =>
                   /\ available_pages(Fields) = available_pages(last.pre) - adjusted
                   /\ used_pages(Fields) = used_pages(last.pre) + adjusted

====
